---- MODULE Spec2Model ----
(***************************************************************************)
(* Model of the org-cli file organizer: the directory scan, the bounded    *)
(* worker pool, moveFile's collision handling and main's progress          *)
(* collector (internal/organizer/organizer.go, cmd/organizer/main.go).     *)
(*                                                                         *)
(* Strings are sequences of one-character strings, a path is a sequence of *)
(* file names (the root directory is the empty path), and the filesystem   *)
(* is a function from the existing paths to their entries.                 *)
(***************************************************************************)
EXTENDS Integers, Sequences, FiniteSets, TLC

(***************************************************************************)
(* Bounds of the model.                                                    *)
(***************************************************************************)
\* at most this many files are put in the source tree
MaxFiles == 2
\* the wall clock reads 0..MaxClock seconds after midnight
MaxClock == 1
\* the largest configured worker count
MaxWorkers == 2
\* the longest file name of the runs over file names
MaxNameLen == 4
\* the most source files of a run of the earlier OrganizeFiles
MaxMovesV1 == 4
\* the largest capacity of the progress channel its caller supplies
MaxChanCap == 1

(***************************************************************************)
(* Strings.                                                                *)
(***************************************************************************)
\* the characters used, in byte order
Alphabet == <<".", "/", "0", "1", "2", "3", "4", "5", "6", "7", "8", "9",
              "A", "B", "C", "D", "E", "F", "G", "H", "I", "J", "K", "L", "M",
              "N", "O", "P", "Q", "R", "S", "T", "U", "V", "W", "X", "Y", "Z",
              "_",
              "a", "b", "c", "d", "e", "f", "g", "h", "i", "j", "k", "l", "m",
              "n", "o", "p", "q", "r", "s", "t", "u", "v", "w", "x", "y", "z">>

Ord(c) == CHOOSE i \in 1..Len(Alphabet) : Alphabet[i] = c

\* strings.ToLower on one character: 'A'..'Z' are 26 places before '_',
\* 'a'..'z' start one place after it
LowerChar(c) == IF Ord(c) >= Ord("A") /\ Ord(c) <= Ord("Z")
                THEN Alphabet[Ord(c) + 27]
                ELSE c

ToLower(s) == [i \in 1..Len(s) |-> LowerChar(s[i])]

\* strings.HasPrefix
HasPrefix(s, prefix) ==
    /\ Len(s) >= Len(prefix)
    /\ SubSeq(s, 1, Len(prefix)) = prefix

\* strings.TrimSuffix
TrimSuffix(s, suffix) ==
    IF Len(s) >= Len(suffix) /\ SubSeq(s, Len(s) - Len(suffix) + 1, Len(s)) = suffix
    THEN SubSeq(s, 1, Len(s) - Len(suffix))
    ELSE s

\* byte-wise s < t, the order in which os.ReadDir returns names
StrLess(s, t) ==
    \E k \in 0..Len(s) :
        /\ k <= Len(t)
        /\ \A i \in 1..k : s[i] = t[i]
        /\ \/ k = Len(s) /\ k < Len(t)
           \/ k < Len(s) /\ k < Len(t) /\ Ord(s[k + 1]) < Ord(t[k + 1])

(***************************************************************************)
(* Paths.                                                                  *)
(***************************************************************************)
\* the path as the string the program holds: "/" + name for every element
RECURSIVE PathString(_)
PathString(p) ==
    IF p = <<>> THEN <<>>
    ELSE PathString(SubSeq(p, 1, Len(p) - 1)) \o <<"/">> \o p[Len(p)]

\* filepath.Base, filepath.Dir, filepath.Join(dir, name)
Base(p) == p[Len(p)]
Dir(p) == SubSeq(p, 1, Len(p) - 1)
Join(dir, name) == Append(dir, name)

\* filepath.Ext: the suffix of the last element starting at its last dot
Ext(p) ==
    LET name == Base(p)
        dots == {i \in 1..Len(name) : name[i] = "."}
    IN  IF dots = {} THEN <<>>
        ELSE SubSeq(name, CHOOSE i \in dots : \A j \in dots : j <= i, Len(name))

(***************************************************************************)
(* The filesystem: fs[p] is the entry at path p.  A directory has mode     *)
(* "rw" (read, write, search), "ro" (read and search only) or "none" (no   *)
(* permission at all); a file carries the identity of its content.         *)
(***************************************************************************)
DirEntry(mode) == [kind |-> "dir", mode |-> mode, data |-> 0]
FileEntry(data) == [kind |-> "file", mode |-> "rw", data |-> data]

\* the error of resolving path p: "" when p exists, else the errno of the
\* first element that stops the lookup
Stat(f, p) ==
    LET stuck == {i \in 0..(Len(p) - 1) :
                    \/ SubSeq(p, 1, i) \notin DOMAIN f
                    \/ f[SubSeq(p, 1, i)].kind # "dir"
                    \/ f[SubSeq(p, 1, i)].mode = "none"}
    IN  IF stuck = {}
        THEN IF p \in DOMAIN f THEN "" ELSE "ENOENT"
        ELSE LET q == SubSeq(p, 1, CHOOSE i \in stuck : \A j \in stuck : i <= j)
             IN  IF q \notin DOMAIN f THEN "ENOENT"
                 ELSE IF f[q].kind # "dir" THEN "ENOTDIR"
                 ELSE "EACCES"

\* os.IsNotExist(err)
IsNotExist(err) == err = "ENOENT"

\* mkdir(2) of one directory
Mkdir(f, p) ==
    IF Stat(f, p) = "" THEN [err |-> "EEXIST", fs |-> f]
    ELSE IF Stat(f, p) # "ENOENT" THEN [err |-> Stat(f, p), fs |-> f]
    ELSE IF Stat(f, Dir(p)) # "" THEN [err |-> Stat(f, Dir(p)), fs |-> f]
    ELSE IF f[Dir(p)].mode # "rw" THEN [err |-> "EACCES", fs |-> f]
    ELSE [err |-> "",
          fs |-> [q \in DOMAIN f \cup {p} |-> IF q = p THEN DirEntry("rw") ELSE f[q]]]

\* os.MkdirAll: nothing to do for an existing directory, else the parents
\* first and then the directory itself
RECURSIVE MkdirAll(_, _)
MkdirAll(f, p) ==
    IF Stat(f, p) = ""
    THEN [err |-> IF f[p].kind = "dir" THEN "" ELSE "ENOTDIR", fs |-> f]
    ELSE LET up == IF Len(p) > 0 THEN MkdirAll(f, Dir(p)) ELSE [err |-> "", fs |-> f]
         IN  IF up.err # "" THEN up ELSE Mkdir(up.fs, p)

\* os.Rename of a file: rename(2) replaces an existing file at the new path
Rename(f, old, new) ==
    IF Stat(f, old) # "" THEN [err |-> Stat(f, old), fs |-> f]
    ELSE IF Stat(f, Dir(new)) # "" THEN [err |-> Stat(f, Dir(new)), fs |-> f]
    ELSE IF f[Dir(new)].kind # "dir" THEN [err |-> "ENOTDIR", fs |-> f]
    ELSE IF f[Dir(old)].mode # "rw" \/ f[Dir(new)].mode # "rw"
         THEN [err |-> "EACCES", fs |-> f]
    ELSE IF Stat(f, new) \notin {"", "ENOENT"} THEN [err |-> Stat(f, new), fs |-> f]
    ELSE IF Stat(f, new) = "" /\ f[new].kind = "dir" THEN [err |-> "EISDIR", fs |-> f]
    ELSE [err |-> "",
          fs |-> [q \in (DOMAIN f \ {old}) \cup {new} |->
                    IF q = new THEN f[old] ELSE f[q]]]

\* os.ReadDir: the names in directory p, sorted; an error when p cannot be read
ReadDirErr(f, p) ==
    IF Stat(f, p) # "" THEN Stat(f, p)
    ELSE IF f[p].kind # "dir" THEN "ENOTDIR"
    ELSE IF f[p].mode = "none" THEN "EACCES"
    ELSE ""

Children(f, p) == {q \in DOMAIN f : Len(q) = Len(p) + 1 /\ Dir(q) = p}

RECURSIVE SortPaths(_)
SortPaths(ps) ==
    IF ps = {} THEN <<>>
    ELSE LET first == CHOOSE q \in ps : \A r \in ps \ {q} : StrLess(Base(q), Base(r))
         IN  <<first>> \o SortPaths(ps \ {first})

ReadDir(f, p) == SortPaths(Children(f, p))

\* the files under directory p, at any depth
FilesUnder(f, p) ==
    {q \in DOMAIN f : f[q].kind = "file" /\ Len(q) > Len(p) /\ SubSeq(q, 1, Len(p)) = p}

(***************************************************************************)
(* Names of the modelled tree and the category mapping.                    *)
(***************************************************************************)
Documents == <<"D", "o", "c", "u", "m", "e", "n", "t", "s">>
Images == <<"I", "m", "a", "g", "e", "s">>
Others == <<"O", "t", "h", "e", "r", "s">>

\* entries of DefaultCategoryMappings used by the modelled files
DefaultCategoryMappings ==
    (<<".", "j", "p", "g">> :> Images) @@
    (<<".", "p", "n", "g">> :> Images) @@
    (<<".", "p", "d", "f">> :> Documents) @@
    (<<".", "t", "x", "t">> :> Documents)

\* the configured source and destination roots: the destination lies inside
\* the source tree, as when the tool is run again on its own output
SourceDir == << <<"s">> >>
DestDir == << <<"s">>, <<"o">> >>

\* the source files that may exist, each with the identity of its content
FilePool ==
    { << << <<"s">>, <<"a", ".", "t", "x", "t">> >>, 1 >>,
      << << <<"s">>, <<"u">>, <<"a", ".", "t", "x", "t">> >>, 2 >>,
      << << <<"s">>, <<"b", ".", "J", "P", "G">> >>, 3 >>,
      << << <<"s">>, <<"o", "2">>, <<"a", ".", "t", "x", "t">> >>, 4 >> }

\* the states the destination tree may start in
DestStates == {"absent", "readonly", "collide", "locked"}

DestEntries(dest) ==
    CASE dest = "absent" -> {}
      [] dest = "readonly" -> { <<DestDir, DirEntry("ro")>> }
      [] dest = "collide" ->
            { <<DestDir, DirEntry("rw")>>,
              <<Join(DestDir, Documents), DirEntry("rw")>>,
              <<Join(Join(DestDir, Documents), <<"a", ".", "t", "x", "t">>), FileEntry(9)>> }
      [] dest = "locked" ->
            { <<DestDir, DirEntry("rw")>>,
              <<Join(DestDir, Documents), DirEntry("none")>> }

\* the directories between the source root and a file, with the given mode
ParentEntries(files, mode) ==
    { <<Dir(x[1]), DirEntry(mode)>> : x \in {y \in files : Len(y[1]) > 2} }

MakeFs(pairs) == [p \in {x[1] : x \in pairs} |-> (CHOOSE x \in pairs : x[1] = p)[2]]

\* the tree with the given source files, mode of their subdirectories and
\* state of the destination
SourceTree(files, subMode, dest) ==
    MakeFs({ << <<>>, DirEntry("rw") >>, <<SourceDir, DirEntry("rw")>> }
           \cup { <<x[1], FileEntry(x[2])>> : x \in files }
           \cup ParentEntries(files, subMode)
           \cup DestEntries(dest))

\* a source root that does not exist, and one that cannot be read
MissingRoot == MakeFs({ << <<>>, DirEntry("rw") >> })
UnreadableRoot == MakeFs({ << <<>>, DirEntry("rw") >>, <<SourceDir, DirEntry("none")>> })

(***************************************************************************)
(* The wall clock: time.Now().Format("20060102_150405") on a fixed day.    *)
(***************************************************************************)
ClockDate == <<"2", "0", "2", "5", "0", "7", "0", "4">>

Digit(n) == Alphabet[Ord("0") + n]
TwoDigits(n) == <<Digit(n \div 10), Digit(n % 10)>>

FormatTimestamp(t) ==
    ClockDate \o <<"_">> \o TwoDigits(t \div 3600) \o TwoDigits((t \div 60) % 60)
              \o TwoDigits(t % 60)

(***************************************************************************)
(* State.                                                                  *)
(***************************************************************************)
VARIABLES
    cfg,            \* Config: DryRun, Recursive, Workers
    faulty,         \* source paths whose moveFile call hits an internal fault
    fs,             \* the filesystem
    fs0,            \* the filesystem when the run started
    run,            \* 1 in the first run of the program, 2 in the second
    prev,           \* the plan and the summary of the previous run
    chanCap,        \* the capacity the progress channel was made with
    now,            \* the wall clock, in seconds
    mainPc,         \* main: "start", "organize", "wait", "done", "panicked"
    orgPc,          \* OrganizeFiles: "idle", "scan", "dispatch", "wait", "summary",
                    \* "returned"
    walk,           \* WalkDir: the callback invocations still to make, in order
    walkErr,        \* the error WalkDir returns
    totalScanned,
    totalSkipped,
    scanErr,
    filesToMove,
    calls,          \* history: the callback invocations WalkDir has made
    totalToProcess,
    next,           \* index in filesToMove of the next task to dispatch
    ret,            \* what OrganizeFiles returned
    workQueue,
    queueClosed,
    wpc,            \* each worker goroutine's position
    wfm,            \* the FileMove a worker's moveFile call is processing
    finalDestPath,  \* moveFile's finalDestPath, per worker
    targetErr,      \* moveFile's err from os.Stat(finalDestPath), per worker
    pending,        \* the ProgressUpdate a worker is about to send
    emitted,        \* updates the worker's current moveFile call has sent
    moveLog,        \* history: per source path, the moveFile calls and their updates
    progressChan,
    progClosed,
    collPc,         \* the progress collector goroutine: "idle", "recv", "done"
    totalProcessed,
    totalErrors

envVars == <<cfg, faulty, fs0, run, prev, chanCap>>
scanVars == <<walk, walkErr, totalScanned, totalSkipped, scanErr, filesToMove, calls>>
orgVars == <<orgPc, totalToProcess, next, ret>>
queueVars == <<workQueue, queueClosed>>
workerVars == <<wpc, wfm, finalDestPath, targetErr, pending, emitted, moveLog>>
chanVars == <<progressChan, progClosed>>
collVars == <<collPc, totalProcessed, totalErrors>>
vars == <<envVars, fs, now, mainPc, scanVars, orgVars, queueVars, workerVars,
          chanVars, collVars>>

\* main.go: progressChan := make(chan organizer.ProgressUpdate, cfg.Workers+10)
ProgressSlack == 10
ProgressCap == cfg.Workers + ProgressSlack

\* broken variant of Workers: the configured count is used as it is
WorkersUnclamped == cfg.Workers

\* organizer.go: if cfg.Workers <= 0 { cfg.Workers = 1 }
Workers == IF cfg.Workers <= 0 THEN 1 ELSE cfg.Workers

\* organizer.go: workQueue := make(chan FileMove, cfg.Workers*2)
QueueCap == Workers * 2

WorkerIds == 1..Workers

NoMove == [SourcePath |-> <<>>, DestPath |-> <<>>, DryRun |-> FALSE]
Moved1 == [Moved |-> 1, Errored |-> 0]
Errored1 == [Moved |-> 0, Errored |-> 1]
NoUpdate == [Moved |-> 0, Errored |-> 0]
\* error values of the scan: nil, and fmt.Errorf("... %q: %w", path, err)
NoError == [path |-> <<>>, errno |-> ""]
ScanError(path, errno) == [path |-> path, errno |-> errno]

NoReturn == [totalScanned |-> 0, totalToProcess |-> 0, totalSkipped |-> 0,
             scanErr |-> NoError]
NoSummary == [plan |-> <<>>, scanned |-> 0, planned |-> 0, skipped |-> 0,
              moved |-> 0, errored |-> 0]

(***************************************************************************)
(* Initial states: a configuration, a source tree and a destination.       *)
(***************************************************************************)
WorkerChoices == {0 - ProgressSlack - 1} \cup 0..MaxWorkers

InitTrees ==
    { SourceTree(files, subMode, dest) :
        files \in {F \in SUBSET FilePool : Cardinality(F) <= MaxFiles},
        subMode \in {"rw", "ro", "none"},
        dest \in DestStates }
    \cup {MissingRoot, UnreadableRoot}

\* the program's variables when main starts, for a given cfg, fs, faulty and
\* progress channel
ProgramStart ==
    /\ fs0 = fs
    /\ now = 0
    /\ run = 1
    /\ prev = NoSummary
    /\ mainPc = "start"
    /\ orgPc = "idle"
    /\ walk = <<>>
    /\ walkErr = ""
    /\ totalScanned = 0
    /\ totalSkipped = 0
    /\ scanErr = NoError
    /\ filesToMove = <<>>
    /\ calls = <<>>
    /\ totalToProcess = 0
    /\ next = 1
    /\ ret = NoReturn
    /\ workQueue = <<>>
    /\ queueClosed = FALSE
    /\ wpc = [w \in WorkerIds |-> "unstarted"]
    /\ wfm = [w \in WorkerIds |-> NoMove]
    /\ finalDestPath = [w \in WorkerIds |-> <<>>]
    /\ targetErr = [w \in WorkerIds |-> "ENOENT"]
    /\ pending = [w \in WorkerIds |-> NoUpdate]
    /\ emitted = [w \in WorkerIds |-> 0]
    /\ moveLog = <<>>
    /\ progressChan = <<>>
    /\ progClosed = FALSE
    /\ collPc = "idle"
    /\ totalProcessed = 0
    /\ totalErrors = 0

Init ==
    /\ cfg \in [DryRun : BOOLEAN, Recursive : BOOLEAN, Workers : WorkerChoices]
    /\ fs \in InitTrees
    /\ faulty \in SUBSET ({x[1] : x \in {y \in FilePool : y[2] = 1}} \cap DOMAIN fs)
    /\ chanCap = ProgressCap
    /\ ProgramStart

(***************************************************************************)
(* main, up to the call of OrganizeFiles.                                  *)
(***************************************************************************)
\* make(chan, n) panics for n < 0; otherwise main starts the collector
\* goroutine and calls OrganizeFiles, which starts WalkDir with Lstat(root)
MainStart ==
    /\ mainPc = "start"
    /\ IF ProgressCap < 0
       THEN /\ mainPc' = "panicked"
            /\ UNCHANGED <<collPc, orgPc, walk>>
       ELSE /\ mainPc' = "organize"
            /\ collPc' = "recv"
            /\ orgPc' = "scan"
            /\ walk' = <<[path |-> SourceDir, err |-> Stat(fs, SourceDir)]>>
    /\ UNCHANGED <<envVars, fs, now, walkErr, totalScanned, totalSkipped, scanErr,
                   filesToMove, calls, totalToProcess, next, ret, queueVars, workerVars,
                   chanVars, totalProcessed, totalErrors>>

(***************************************************************************)
(* Phase 1: the scan.                                                      *)
(***************************************************************************)
\* broken variant of Category: a lookup that does not lowercase the extension
CategoryCaseSensitive(path) ==
    IF Ext(path) \in DOMAIN DefaultCategoryMappings
    THEN DefaultCategoryMappings[Ext(path)]
    ELSE Others

\* the category of a path: the mapping's entry for its lowercased extension
Category(path) ==
    LET ext == ToLower(Ext(path))
    IN  IF ext \in DOMAIN DefaultCategoryMappings
        THEN DefaultCategoryMappings[ext]
        ELSE Others

\* broken variant of AlreadyInDest: no file is taken as already organized
AlreadyInDestNever(path) == FALSE

\* the destination-prefix test that skips already organized files
AlreadyInDest(path) == HasPrefix(PathString(path), PathString(DestDir))

PlannedMove(path) ==
    [SourcePath |-> path,
     DestPath |-> Join(Join(DestDir, Category(path)), Base(path)),
     DryRun |-> cfg.DryRun]

\* broken variants of WalkFn: one that counts an entry only after the error
\* check, and one that descends whatever cfg.Recursive says
WalkFnCountAfterCheck(path, isDir, err) ==
    LET st == [totalScanned |-> totalScanned, totalSkipped |-> totalSkipped,
               scanErr |-> scanErr, filesToMove |-> filesToMove, ret |-> "nil"]
        counted == [st EXCEPT !.totalScanned = @ + 1]
    IN  IF err # "" THEN [st EXCEPT !.scanErr = ScanError(path, err)]
        ELSE IF isDir
        THEN [counted EXCEPT !.ret = IF ~cfg.Recursive /\ path # SourceDir
                                     THEN "SkipDir" ELSE "nil"]
        ELSE IF AlreadyInDest(path) THEN [counted EXCEPT !.totalSkipped = @ + 1]
        ELSE [counted EXCEPT !.filesToMove = Append(@, PlannedMove(path))]

WalkFnAlwaysDescend(path, isDir, err) ==
    LET st == [totalScanned |-> totalScanned + 1, totalSkipped |-> totalSkipped,
               scanErr |-> scanErr, filesToMove |-> filesToMove, ret |-> "nil"]
    IN  IF err # "" THEN [st EXCEPT !.scanErr = ScanError(path, err)]
        ELSE IF isDir THEN st
        ELSE IF AlreadyInDest(path) THEN [st EXCEPT !.totalSkipped = @ + 1]
        ELSE [st EXCEPT !.filesToMove = Append(@, PlannedMove(path))]

\* the WalkDir callback on (path, d, err): the counters and plan after it,
\* and the value it returns
WalkFn(path, isDir, err) ==
    LET st == [totalScanned |-> totalScanned + 1, totalSkipped |-> totalSkipped,
               scanErr |-> scanErr, filesToMove |-> filesToMove, ret |-> "nil"]
    IN  IF err # "" THEN [st EXCEPT !.scanErr = ScanError(path, err)]
        ELSE IF isDir
        THEN [st EXCEPT !.ret = IF ~cfg.Recursive /\ path # SourceDir
                                THEN "SkipDir" ELSE "nil"]
        ELSE IF AlreadyInDest(path) THEN [st EXCEPT !.totalSkipped = @ + 1]
        ELSE [st EXCEPT !.filesToMove = Append(@, PlannedMove(path))]

\* one callback invocation, and what WalkDir does with its result: descend
\* into a directory (or report that it cannot be read), skip it, or go on
ScanStep ==
    /\ orgPc = "scan"
    /\ walk # <<>>
    /\ LET item == Head(walk)
           isDir == item.err = "" /\ fs[item.path].kind = "dir"
           r == WalkFn(item.path, isDir, item.err)
       IN  /\ totalScanned' = r.totalScanned
           /\ totalSkipped' = r.totalSkipped
           /\ scanErr' = r.scanErr
           /\ filesToMove' = r.filesToMove
           /\ calls' = Append(calls, [path |-> item.path, err |-> item.err,
                                      isDir |-> isDir])
           /\ IF r.ret \notin {"nil", "SkipDir"}
              THEN walkErr' = r.ret /\ walk' = <<>>
              ELSE /\ walkErr' = walkErr
                   /\ walk' =
                        IF isDir /\ r.ret = "nil"
                        THEN IF ReadDirErr(fs, item.path) # ""
                             THEN <<[path |-> item.path, err |-> ReadDirErr(fs, item.path)]>>
                                  \o Tail(walk)
                             ELSE [i \in 1..Len(ReadDir(fs, item.path)) |->
                                     [path |-> ReadDir(fs, item.path)[i], err |-> ""]]
                                  \o Tail(walk)
                        ELSE Tail(walk)
    /\ UNCHANGED <<envVars, fs, now, mainPc, orgVars, queueVars, workerVars,
                   chanVars, collVars>>

\* broken variant of ScanDone: the workers are started while the walk is
\* still going on
ScanDoneEarly ==
    /\ orgPc = "scan"
    /\ IF walkErr # ""
       THEN /\ ret' = [totalScanned |-> totalScanned, totalToProcess |-> totalToProcess,
                       totalSkipped |-> totalSkipped,
                       scanErr |-> ScanError(SourceDir, walkErr)]
            /\ orgPc' = "returned"
            /\ UNCHANGED <<totalToProcess, wpc>>
       ELSE /\ totalToProcess' = Len(filesToMove)
            /\ IF Len(filesToMove) = 0
               THEN /\ ret' = [totalScanned |-> totalScanned, totalToProcess |-> 0,
                               totalSkipped |-> totalSkipped, scanErr |-> NoError]
                    /\ orgPc' = "returned"
                    /\ wpc' = wpc
               ELSE /\ ret' = ret
                    /\ orgPc' = "dispatch"
                    /\ wpc' = [w \in WorkerIds |-> "idle"]
    /\ UNCHANGED <<envVars, fs, now, mainPc, scanVars, next, queueVars, wfm,
                   finalDestPath, targetErr, pending, emitted, moveLog, chanVars, collVars>>

\* WalkDir has returned: return on a walk error or an empty plan, otherwise
\* create the work queue and start the workers
ScanDone ==
    /\ orgPc = "scan"
    /\ walk = <<>>
    /\ IF walkErr # ""
       THEN /\ ret' = [totalScanned |-> totalScanned, totalToProcess |-> totalToProcess,
                       totalSkipped |-> totalSkipped,
                       scanErr |-> ScanError(SourceDir, walkErr)]
            /\ orgPc' = "returned"
            /\ UNCHANGED <<totalToProcess, wpc>>
       ELSE /\ totalToProcess' = Len(filesToMove)
            /\ IF Len(filesToMove) = 0
               THEN /\ ret' = [totalScanned |-> totalScanned, totalToProcess |-> 0,
                               totalSkipped |-> totalSkipped, scanErr |-> NoError]
                    /\ orgPc' = "returned"
                    /\ wpc' = wpc
               ELSE /\ ret' = ret
                    /\ orgPc' = "dispatch"
                    /\ wpc' = [w \in WorkerIds |-> "idle"]
    /\ UNCHANGED <<envVars, fs, now, mainPc, scanVars, next, queueVars, wfm,
                   finalDestPath, targetErr, pending, emitted, moveLog, chanVars, collVars>>

(***************************************************************************)
(* Phase 2: the dispatch loop and the worker goroutines.                   *)
(***************************************************************************)
\* workQueue <- fm, blocking while the queue is full
Enqueue ==
    /\ orgPc = "dispatch"
    /\ next <= Len(filesToMove)
    /\ Len(workQueue) < QueueCap
    /\ workQueue' = Append(workQueue, filesToMove[next])
    /\ next' = next + 1
    /\ UNCHANGED <<envVars, fs, now, mainPc, scanVars, orgPc, totalToProcess, ret,
                   queueClosed, workerVars, chanVars, collVars>>

\* broken variant of CloseQueue: the producer goes on to wg.Wait() without
\* closing the work queue
CloseQueueForgotten ==
    /\ orgPc = "dispatch"
    /\ next > Len(filesToMove)
    /\ queueClosed' = queueClosed
    /\ orgPc' = "wait"
    /\ UNCHANGED <<envVars, fs, now, mainPc, scanVars, totalToProcess, next, ret,
                   workQueue, workerVars, chanVars, collVars>>

\* close(workQueue) after the last task
CloseQueue ==
    /\ orgPc = "dispatch"
    /\ next > Len(filesToMove)
    /\ queueClosed' = TRUE
    /\ orgPc' = "wait"
    /\ UNCHANGED <<envVars, fs, now, mainPc, scanVars, totalToProcess, next, ret,
                   workQueue, workerVars, chanVars, collVars>>

\* broken variants of AllWorkersDone: a wait that one wg.Done() satisfies,
\* and no wait at all
SomeWorkerDone == \E w \in WorkerIds : wpc[w] = "exited"
NoWait == TRUE

\* wg.Wait(): every worker has called wg.Done()
AllWorkersDone == \A w \in WorkerIds : wpc[w] = "exited"

OrgReturn ==
    /\ orgPc = "wait"
    /\ AllWorkersDone
    /\ orgPc' = "returned"
    /\ ret' = [totalScanned |-> totalScanned, totalToProcess |-> totalToProcess,
               totalSkipped |-> totalSkipped, scanErr |-> NoError]
    /\ UNCHANGED <<envVars, fs, now, mainPc, scanVars, totalToProcess, next,
                   queueVars, workerVars, chanVars, collVars>>

\* the history after one more moveFile call on the planned move of src
LogCall(src) ==
    IF src \in DOMAIN moveLog
    THEN [moveLog EXCEPT ![src].calls = @ + 1]
    ELSE (src :> [calls |-> 1, updates |-> <<>>]) @@ moveLog

\* broken variant of Dequeue: the worker reads the head and leaves it queued
DequeuePeek(w) ==
    /\ wpc[w] = "idle"
    /\ workQueue # <<>>
    /\ workQueue' = workQueue
    /\ wfm' = [wfm EXCEPT ![w] = Head(workQueue)]
    /\ wpc' = [wpc EXCEPT ![w] = "statDir"]
    /\ emitted' = [emitted EXCEPT ![w] = 0]
    /\ moveLog' = LogCall(Head(workQueue).SourcePath)
    /\ finalDestPath' = [finalDestPath EXCEPT ![w] = <<>>]
    /\ targetErr' = [targetErr EXCEPT ![w] = "ENOENT"]
    /\ UNCHANGED <<envVars, fs, now, mainPc, scanVars, orgVars, queueClosed, pending,
                   chanVars, collVars>>

\* for fm := range workQueue: take a task and call moveFile
Dequeue(w) ==
    /\ wpc[w] = "idle"
    /\ workQueue # <<>>
    /\ workQueue' = Tail(workQueue)
    /\ wfm' = [wfm EXCEPT ![w] = Head(workQueue)]
    /\ wpc' = [wpc EXCEPT ![w] = "statDir"]
    /\ emitted' = [emitted EXCEPT ![w] = 0]
    /\ moveLog' = LogCall(Head(workQueue).SourcePath)
    /\ finalDestPath' = [finalDestPath EXCEPT ![w] = <<>>]
    /\ targetErr' = [targetErr EXCEPT ![w] = "ENOENT"]
    /\ UNCHANGED <<envVars, fs, now, mainPc, scanVars, orgVars, queueClosed, pending,
                   chanVars, collVars>>

\* the range loop ends on the closed, drained queue
WorkerExit(w) ==
    /\ wpc[w] = "idle"
    /\ workQueue = <<>>
    /\ queueClosed
    /\ wpc' = [wpc EXCEPT ![w] = "exited"]
    /\ UNCHANGED <<envVars, fs, now, mainPc, scanVars, orgVars, queueVars, wfm,
                   finalDestPath, targetErr, pending, emitted, moveLog, chanVars, collVars>>

(***************************************************************************)
(* moveFile, one action per system call or channel operation.              *)
(***************************************************************************)
\* an internal fault before any update is sent: the deferred function runs
Panic(w) ==
    /\ wpc[w] = "statDir"
    /\ wfm[w].SourcePath \in faulty
    /\ wpc' = [wpc EXCEPT ![w] = "recover"]
    /\ pending' = [pending EXCEPT ![w] = Errored1]
    /\ UNCHANGED <<envVars, fs, now, mainPc, scanVars, orgVars, queueVars, wfm,
                   finalDestPath, targetErr, emitted, moveLog, chanVars, collVars>>

\* broken variant of AfterStatDir: the directory is created in a dry run too
AfterStatDirAlways(fm, err) == IF IsNotExist(err) THEN "mkdir" ELSE "statTarget"

\* where moveFile goes after os.Stat(destDir)
AfterStatDir(fm, err) ==
    IF IsNotExist(err) /\ ~fm.DryRun THEN "mkdir" ELSE "statTarget"

StatDir(w) ==
    /\ wpc[w] = "statDir"
    /\ wfm[w].SourcePath \notin faulty
    /\ wpc' = [wpc EXCEPT ![w] = AfterStatDir(wfm[w], Stat(fs, Dir(wfm[w].DestPath)))]
    /\ UNCHANGED <<envVars, fs, now, mainPc, scanVars, orgVars, queueVars, wfm,
                   finalDestPath, targetErr, pending, emitted, moveLog, chanVars, collVars>>

\* broken variant of EnsureDir: os.Mkdir semantics, an error when the directory
\* has appeared in the meantime
EnsureDirExclusive(f, destDir) ==
    IF Stat(f, destDir) = "" THEN [err |-> "EEXIST", fs |-> f] ELSE MkdirAll(f, destDir)

\* moveFile's creation of the missing destination directory
EnsureDir(f, destDir) == MkdirAll(f, destDir)

\* os.MkdirAll(destDir, 0755)
MkdirStep(w) ==
    /\ wpc[w] = "mkdir"
    /\ LET r == EnsureDir(fs, Dir(wfm[w].DestPath))
       IN  IF r.err # ""
           THEN /\ pending' = [pending EXCEPT ![w] = Errored1]
                /\ wpc' = [wpc EXCEPT ![w] = "send"]
                /\ fs' = fs
           ELSE /\ pending' = pending
                /\ wpc' = [wpc EXCEPT ![w] = "statTarget"]
                /\ fs' = r.fs
    /\ UNCHANGED <<envVars, now, mainPc, scanVars, orgVars, queueVars, wfm,
                   finalDestPath, targetErr, emitted, moveLog, chanVars, collVars>>

\* the collision-resolved name: <name>_<timestamp><ext> in the same directory
Suffixed(destPath, t) ==
    LET ext == Ext(destPath)
        name == TrimSuffix(Base(destPath), ext)
    IN  Join(Dir(destPath), name \o <<"_">> \o FormatTimestamp(t) \o ext)

\* broken variant of ResolveCollision: the target name is used even when it exists
ResolveCollisionKeep(fm, err, t) == fm.DestPath

\* moveFile's finalDestPath after os.Stat(fm.DestPath) returned err at time t
ResolveCollision(fm, err, t) == IF err = "" THEN Suffixed(fm.DestPath, t) ELSE fm.DestPath

\* broken variant of StatTarget: every error of the collision check is taken
\* as not-found
StatTargetAnyErrorIsAbsent(w) ==
    /\ wpc[w] = "statTarget"
    /\ LET err == Stat(fs, wfm[w].DestPath)
       IN  /\ targetErr' = [targetErr EXCEPT ![w] = err]
           /\ \E t \in now..MaxClock :
                 /\ now' = IF err = "" THEN t ELSE now
                 /\ finalDestPath' =
                       [finalDestPath EXCEPT ![w] = ResolveCollision(wfm[w], err, t)]
           /\ pending' = pending
           /\ wpc' = [wpc EXCEPT ![w] = "move"]
    /\ UNCHANGED <<envVars, fs, mainPc, scanVars, orgVars, queueVars, wfm, emitted, moveLog,
                   chanVars, collVars>>

\* os.Stat(finalDestPath), and time.Now() when the target exists
StatTarget(w) ==
    /\ wpc[w] = "statTarget"
    /\ LET err == Stat(fs, wfm[w].DestPath)
       IN  /\ targetErr' = [targetErr EXCEPT ![w] = err]
           /\ IF err = "" \/ IsNotExist(err)
              THEN /\ \E t \in now..MaxClock :
                         /\ now' = IF err = "" THEN t ELSE now
                         /\ finalDestPath' =
                               [finalDestPath EXCEPT ![w] = ResolveCollision(wfm[w], err, t)]
                   /\ pending' = pending
                   /\ wpc' = [wpc EXCEPT ![w] = "move"]
              ELSE /\ pending' = [pending EXCEPT ![w] = Errored1]
                   /\ wpc' = [wpc EXCEPT ![w] = "send"]
                   /\ UNCHANGED <<now, finalDestPath>>
    /\ UNCHANGED <<envVars, fs, mainPc, scanVars, orgVars, queueVars, wfm, emitted, moveLog,
                   chanVars, collVars>>

\* broken variant of MoveResult: a copy followed by a removal, where the copy
\* stays when the source cannot be removed
MoveResultCopyThenRemove(f, fm, final) ==
    IF fm.DryRun THEN [fs |-> f, update |-> Moved1]
    ELSE LET r == Rename(f, fm.SourcePath, final)
         IN  IF r.err = "" THEN [fs |-> r.fs, update |-> Moved1]
             ELSE IF /\ Stat(f, fm.SourcePath) = ""
                     /\ Stat(f, Dir(final)) = ""
                     /\ f[Dir(final)].kind = "dir"
                     /\ f[Dir(final)].mode = "rw"
             THEN [fs |-> (final :> f[fm.SourcePath]) @@ f, update |-> Errored1]
             ELSE [fs |-> f, update |-> Errored1]

\* broken variant of MoveResult: the file is copied and the source is left
MoveResultLeaveSource(f, fm, final) ==
    IF fm.DryRun THEN [fs |-> f, update |-> Moved1]
    ELSE LET r == Rename(f, fm.SourcePath, final)
         IN  IF r.err # "" THEN [fs |-> f, update |-> Errored1]
             ELSE [fs |-> (fm.SourcePath :> f[fm.SourcePath]) @@ r.fs,
                   update |-> Moved1]

\* broken variant of MoveResult: a failed rename is reported as moved and errored
MoveResultBoth(f, fm, final) ==
    IF fm.DryRun THEN [fs |-> f, update |-> Moved1]
    ELSE LET r == Rename(f, fm.SourcePath, final)
         IN  IF r.err # "" THEN [fs |-> f, update |-> [Moved |-> 1, Errored |-> 1]]
             ELSE [fs |-> r.fs, update |-> Moved1]

\* the filesystem after moveFile's last step, and the update it reports
MoveResult(f, fm, final) ==
    IF fm.DryRun THEN [fs |-> f, update |-> Moved1]
    ELSE LET r == Rename(f, fm.SourcePath, final)
         IN  IF r.err # "" THEN [fs |-> f, update |-> Errored1]
             ELSE [fs |-> r.fs, update |-> Moved1]

\* os.Rename(fm.SourcePath, finalDestPath), or nothing in a dry run
MoveStep(w) ==
    /\ wpc[w] = "move"
    /\ fs' = MoveResult(fs, wfm[w], finalDestPath[w]).fs
    /\ pending' = [pending EXCEPT ![w] = MoveResult(fs, wfm[w], finalDestPath[w]).update]
    /\ wpc' = [wpc EXCEPT ![w] = "send"]
    /\ UNCHANGED <<envVars, now, mainPc, scanVars, orgVars, queueVars, wfm,
                   finalDestPath, targetErr, emitted, moveLog, chanVars, collVars>>

\* broken variant of SendUpdate: the worker goroutine returns after an
\* errored item
SendUpdateStopOnError(w) ==
    /\ Len(progressChan) < ProgressCap \/ progClosed
    /\ IF progClosed
       THEN /\ wpc' = [wpc EXCEPT ![w] = "crashed"]
            /\ UNCHANGED <<progressChan, emitted, moveLog>>
       ELSE /\ wpc' = [wpc EXCEPT ![w] = IF pending[w] = Errored1 THEN "exited"
                                                                  ELSE "idle"]
            /\ progressChan' = Append(progressChan, pending[w])
            /\ emitted' = [emitted EXCEPT ![w] = @ + 1]
            /\ moveLog' = [moveLog EXCEPT ![wfm[w].SourcePath].updates =
                                              Append(@, pending[w])]
    /\ pending' = [pending EXCEPT ![w] = NoUpdate]
    /\ UNCHANGED <<envVars, fs, now, mainPc, scanVars, orgVars, queueVars, wfm,
                   finalDestPath, targetErr, progClosed, collVars>>

\* progressChan <- update: blocks while the channel is full, panics when it
\* is closed; after it moveFile returns to the worker's loop
SendUpdate(w) ==
    /\ Len(progressChan) < ProgressCap \/ progClosed
    /\ IF progClosed
       THEN /\ wpc' = [wpc EXCEPT ![w] = "crashed"]
            /\ UNCHANGED <<progressChan, emitted, moveLog>>
       ELSE /\ wpc' = [wpc EXCEPT ![w] = "idle"]
            /\ progressChan' = Append(progressChan, pending[w])
            /\ emitted' = [emitted EXCEPT ![w] = @ + 1]
            /\ moveLog' = [moveLog EXCEPT ![wfm[w].SourcePath].updates =
                                              Append(@, pending[w])]
    /\ pending' = [pending EXCEPT ![w] = NoUpdate]
    /\ UNCHANGED <<envVars, fs, now, mainPc, scanVars, orgVars, queueVars, wfm,
                   finalDestPath, targetErr, progClosed, collVars>>

Send(w) ==
    /\ wpc[w] = "send"
    /\ SendUpdate(w)

\* broken variant of Recover: no deferred recover(), the panic ends the goroutine
RecoverMissing(w) ==
    /\ wpc[w] = "recover"
    /\ wpc' = [wpc EXCEPT ![w] = "crashed"]
    /\ pending' = [pending EXCEPT ![w] = NoUpdate]
    /\ UNCHANGED <<envVars, fs, now, mainPc, scanVars, orgVars, queueVars, wfm,
                   finalDestPath, targetErr, emitted, moveLog, chanVars, collVars>>

\* the deferred function's send after recover()
Recover(w) ==
    /\ wpc[w] = "recover"
    /\ SendUpdate(w)

(***************************************************************************)
(* main's progress collector, and main after OrganizeFiles.                *)
(***************************************************************************)
\* for update := range progressChan
Receive ==
    /\ collPc = "recv"
    /\ progressChan # <<>>
    /\ totalProcessed' = totalProcessed + Head(progressChan).Moved
    /\ totalErrors' = totalErrors + Head(progressChan).Errored
    /\ progressChan' = Tail(progressChan)
    /\ UNCHANGED <<envVars, fs, now, mainPc, scanVars, orgVars, queueVars, workerVars,
                   progClosed, collPc>>

CollectorExit ==
    /\ collPc = "recv"
    /\ progressChan = <<>>
    /\ progClosed
    /\ collPc' = "done"
    /\ UNCHANGED <<envVars, fs, now, mainPc, scanVars, orgVars, queueVars, workerVars,
                   chanVars, totalProcessed, totalErrors>>

\* broken variant of MainClose: the channel is closed while OrganizeFiles runs
MainCloseEarly ==
    /\ mainPc = "organize"
    /\ progClosed' = TRUE
    /\ mainPc' = "wait"
    /\ UNCHANGED <<envVars, fs, now, scanVars, orgVars, queueVars, workerVars,
                   progressChan, collVars>>

\* close(progressChan) once OrganizeFiles has returned
MainClose ==
    /\ mainPc = "organize"
    /\ orgPc = "returned"
    /\ progClosed' = TRUE
    /\ mainPc' = "wait"
    /\ UNCHANGED <<envVars, fs, now, scanVars, orgVars, queueVars, workerVars,
                   progressChan, collVars>>

\* broken variant of MainFinish: the summary is printed without wgProgress.Wait()
MainFinishNoWait ==
    /\ mainPc = "wait"
    /\ mainPc' = "done"
    /\ UNCHANGED <<envVars, fs, now, scanVars, orgVars, queueVars, workerVars,
                   chanVars, collVars>>

\* wgProgress.Wait(), then the summary
MainFinish ==
    /\ mainPc = "wait"
    /\ collPc = "done"
    /\ mainPc' = "done"
    /\ UNCHANGED <<envVars, fs, now, scanVars, orgVars, queueVars, workerVars,
                   chanVars, collVars>>

Next ==
    \/ MainStart
    \/ ScanStep
    \/ ScanDone
    \/ Enqueue
    \/ CloseQueue
    \/ OrgReturn
    \/ \E w \in WorkerIds : Dequeue(w)
    \/ \E w \in WorkerIds : WorkerExit(w)
    \/ \E w \in WorkerIds : Panic(w)
    \/ \E w \in WorkerIds : StatDir(w)
    \/ \E w \in WorkerIds : MkdirStep(w)
    \/ \E w \in WorkerIds : StatTarget(w)
    \/ \E w \in WorkerIds : MoveStep(w)
    \/ \E w \in WorkerIds : Send(w)
    \/ \E w \in WorkerIds : Recover(w)
    \/ Receive
    \/ CollectorExit
    \/ MainClose
    \/ MainFinish

Spec == Init /\ [][Next]_vars

(***************************************************************************)
(* The program under a fair scheduler: main and OrganizeFiles, every       *)
(* worker goroutine and the collector goroutine each take a step that      *)
(* stays possible.                                                         *)
(***************************************************************************)
MainStep ==
    \/ MainStart
    \/ ScanStep
    \/ ScanDone
    \/ Enqueue
    \/ CloseQueue
    \/ OrgReturn
    \/ MainClose
    \/ MainFinish

WorkerStep(w) ==
    /\ w \in WorkerIds
    /\ \/ Dequeue(w)
       \/ WorkerExit(w)
       \/ Panic(w)
       \/ StatDir(w)
       \/ MkdirStep(w)
       \/ StatTarget(w)
       \/ MoveStep(w)
       \/ Send(w)
       \/ Recover(w)

CollectorStep == Receive \/ CollectorExit

Fairness ==
    /\ WF_vars(MainStep)
    /\ \A w \in 1..MaxWorkers : WF_vars(WorkerStep(w))
    /\ WF_vars(CollectorStep)

\* recursive runs over readable trees whose destination has an unreadable
\* Documents directory, for every worker count from 1, with and without
\* internal faults
InitFair ==
    /\ cfg \in [DryRun : BOOLEAN, Recursive : {TRUE}, Workers : 1..MaxWorkers]
    /\ fs \in { SourceTree(files, "rw", "locked") :
                   files \in {F \in SUBSET FilePool : Cardinality(F) <= MaxFiles} }
    /\ faulty \in SUBSET ({x[1] : x \in {y \in FilePool : y[2] = 1}} \cap DOMAIN fs)
    /\ chanCap = ProgressCap
    /\ ProgramStart

SpecFair == InitFair /\ [][Next]_vars /\ Fairness

(***************************************************************************)
(* Runs over one file of any name: the names are the strings of up to      *)
(* MaxNameLen characters of NameChars, without "." and "..".               *)
(***************************************************************************)
NameChars == {".", "T", "X", "t", "x"}

FileNames ==
    {n \in UNION {[1..k -> NameChars] : k \in 1..MaxNameLen} :
        n \notin {<<".">>, <<".", ".">>}}

InitCategory ==
    /\ cfg = [DryRun |-> FALSE, Recursive |-> FALSE, Workers |-> 1]
    /\ \E n \in FileNames :
          /\ fs = SourceTree({<<Join(SourceDir, n), 1>>}, "rw", "absent")
          /\ faulty \in SUBSET {Join(SourceDir, n)}
    /\ chanCap = ProgressCap
    /\ ProgramStart

SpecCategory == InitCategory /\ [][Next]_vars

(***************************************************************************)
(* The program run twice in a row with the same configuration, the second  *)
(* run on the filesystem the first one left.                               *)
(***************************************************************************)
\* what a run plans and what its summary prints
Summary ==
    [plan |-> filesToMove, scanned |-> ret.totalScanned, planned |-> ret.totalToProcess,
     skipped |-> ret.totalSkipped, moved |-> totalProcessed, errored |-> totalErrors]

Rerun ==
    /\ mainPc = "done"
    /\ run = 1
    /\ UNCHANGED <<cfg, faulty, fs, now, chanCap>>
    /\ run' = 2
    /\ prev' = Summary
    /\ fs0' = fs
    /\ mainPc' = "start"
    /\ orgPc' = "idle"
    /\ walk' = <<>>
    /\ walkErr' = ""
    /\ totalScanned' = 0
    /\ totalSkipped' = 0
    /\ scanErr' = NoError
    /\ calls' = <<>>
    /\ filesToMove' = <<>>
    /\ totalToProcess' = 0
    /\ next' = 1
    /\ ret' = NoReturn
    /\ workQueue' = <<>>
    /\ queueClosed' = FALSE
    /\ wpc' = [w \in WorkerIds |-> "unstarted"]
    /\ wfm' = [w \in WorkerIds |-> NoMove]
    /\ finalDestPath' = [w \in WorkerIds |-> <<>>]
    /\ targetErr' = [w \in WorkerIds |-> "ENOENT"]
    /\ pending' = [w \in WorkerIds |-> NoUpdate]
    /\ emitted' = [w \in WorkerIds |-> 0]
    /\ moveLog' = <<>>
    /\ progressChan' = <<>>
    /\ progClosed' = FALSE
    /\ collPc' = "idle"
    /\ totalProcessed' = 0
    /\ totalErrors' = 0

NextTwice == Next \/ Rerun

SpecTwice == Init /\ [][NextTwice]_vars

(***************************************************************************)
(* The earlier OrganizeFiles (internal/organizer/organizerv1.go): its      *)
(* caller supplies the progress channel; OrganizeFiles starts the          *)
(* goroutine that collects the updates after its dispatch loop, closes the *)
(* channel after wg.Wait() and returns the counts itself.  Its moveFile,   *)
(* worker loop and dispatch loop are those of the later version.           *)
(***************************************************************************)
\* the source files of these runs: 1.txt, 2.txt, ... with their content
FilesV1(n) ==
    { <<Join(SourceDir, <<Digit(i), ".", "t", "x", "t">>), i>> : i \in 1..n }

\* what the earlier OrganizeFiles returns
RetV1(scanned, moved, skipped, errored, err) ==
    [scanned |-> scanned, moved |-> moved, skipped |-> skipped,
     errored |-> errored, err |-> err]

InitV1 ==
    /\ cfg \in [DryRun : BOOLEAN, Recursive : BOOLEAN, Workers : 1..MaxWorkers]
    /\ fs \in { SourceTree(FilesV1(n), "rw", dest) :
                   n \in 0..MaxMovesV1, dest \in {"absent", "locked"} }
    /\ faulty \in SUBSET ({x[1] : x \in FilesV1(1)} \cap DOMAIN fs)
    /\ chanCap \in 0..MaxChanCap
    /\ ProgramStart

\* the caller calls OrganizeFiles, which starts WalkDir with Lstat(root)
StartV1 ==
    /\ mainPc = "start"
    /\ mainPc' = "organize"
    /\ orgPc' = "scan"
    /\ walk' = <<[path |-> SourceDir, err |-> Stat(fs, SourceDir)]>>
    /\ UNCHANGED <<envVars, fs, now, walkErr, totalScanned, totalSkipped, scanErr,
                   filesToMove, calls, totalToProcess, next, ret, queueVars, workerVars,
                   chanVars, collVars>>

\* its WalkDir callback: skippedCount, scanError and the plan after the
\* invocation, and the value returned; entries are not counted
WalkFnV1(path, isDir, err) ==
    LET st == [totalScanned |-> totalScanned, totalSkipped |-> totalSkipped,
               scanErr |-> scanErr, filesToMove |-> filesToMove, ret |-> "nil"]
    IN  IF err # "" THEN [st EXCEPT !.scanErr = ScanError(path, err)]
        ELSE IF isDir
        THEN [st EXCEPT !.ret = IF ~cfg.Recursive /\ path # SourceDir
                                THEN "SkipDir" ELSE "nil"]
        ELSE IF AlreadyInDest(path) THEN [st EXCEPT !.totalSkipped = @ + 1]
        ELSE [st EXCEPT !.filesToMove = Append(@, PlannedMove(path))]

ScanStepV1 ==
    /\ orgPc = "scan"
    /\ walk # <<>>
    /\ LET item == Head(walk)
           isDir == item.err = "" /\ fs[item.path].kind = "dir"
           r == WalkFnV1(item.path, isDir, item.err)
       IN  /\ totalScanned' = r.totalScanned
           /\ totalSkipped' = r.totalSkipped
           /\ scanErr' = r.scanErr
           /\ filesToMove' = r.filesToMove
           /\ calls' = Append(calls, [path |-> item.path, err |-> item.err,
                                      isDir |-> isDir])
           /\ IF r.ret \notin {"nil", "SkipDir"}
              THEN walkErr' = r.ret /\ walk' = <<>>
              ELSE /\ walkErr' = walkErr
                   /\ walk' =
                        IF isDir /\ r.ret = "nil"
                        THEN IF ReadDirErr(fs, item.path) # ""
                             THEN <<[path |-> item.path, err |-> ReadDirErr(fs, item.path)]>>
                                  \o Tail(walk)
                             ELSE [i \in 1..Len(ReadDir(fs, item.path)) |->
                                     [path |-> ReadDir(fs, item.path)[i], err |-> ""]]
                                  \o Tail(walk)
                        ELSE Tail(walk)
    /\ UNCHANGED <<envVars, fs, now, mainPc, orgVars, queueVars, workerVars,
                   chanVars, collVars>>

\* WalkDir has returned: return on a walk error or an empty plan, otherwise
\* create the work queue and start the workers
ScanDoneV1 ==
    /\ orgPc = "scan"
    /\ walk = <<>>
    /\ IF walkErr # ""
       THEN /\ ret' = RetV1(0, 0, 0, 0, ScanError(SourceDir, walkErr))
            /\ orgPc' = "returned"
            /\ mainPc' = "done"
            /\ UNCHANGED <<totalToProcess, wpc>>
       ELSE /\ totalToProcess' = Len(filesToMove)
            /\ IF Len(filesToMove) = 0
               THEN /\ ret' = RetV1(0, 0, totalSkipped, 0, NoError)
                    /\ orgPc' = "returned"
                    /\ mainPc' = "done"
                    /\ wpc' = wpc
               ELSE /\ ret' = ret
                    /\ orgPc' = "dispatch"
                    /\ mainPc' = mainPc
                    /\ wpc' = [w \in WorkerIds |-> "idle"]
    /\ UNCHANGED <<envVars, fs, now, scanVars, next, queueVars, wfm,
                   finalDestPath, targetErr, pending, emitted, moveLog, chanVars, collVars>>

\* close(workQueue) after the last task, then the go statement of the
\* goroutine that collects the updates
CloseQueueV1 ==
    /\ orgPc = "dispatch"
    /\ next > Len(filesToMove)
    /\ queueClosed' = TRUE
    /\ collPc' = "recv"
    /\ orgPc' = "wait"
    /\ UNCHANGED <<envVars, fs, now, mainPc, scanVars, totalToProcess, next, ret,
                   workQueue, workerVars, chanVars, totalProcessed, totalErrors>>

\* progressChan <- update on the caller's channel: a buffered channel takes
\* the update while it has room, an unbuffered one hands it to the collector
\* waiting in its receive, whose loop body adds it to the counts; the send
\* blocks otherwise and panics on a closed channel
SendUpdateV1(w) ==
    /\ \/ progClosed
       \/ Len(progressChan) < chanCap
       \/ chanCap = 0 /\ collPc = "recv"
    /\ IF progClosed
       THEN /\ wpc' = [wpc EXCEPT ![w] = "crashed"]
            /\ UNCHANGED <<progressChan, emitted, moveLog, totalProcessed, totalErrors>>
       ELSE /\ wpc' = [wpc EXCEPT ![w] = "idle"]
            /\ emitted' = [emitted EXCEPT ![w] = @ + 1]
            /\ moveLog' = [moveLog EXCEPT ![wfm[w].SourcePath].updates =
                                              Append(@, pending[w])]
            /\ IF chanCap = 0
               THEN /\ totalProcessed' = totalProcessed + pending[w].Moved
                    /\ totalErrors' = totalErrors + pending[w].Errored
                    /\ progressChan' = progressChan
               ELSE /\ progressChan' = Append(progressChan, pending[w])
                    /\ UNCHANGED <<totalProcessed, totalErrors>>
    /\ pending' = [pending EXCEPT ![w] = NoUpdate]
    /\ UNCHANGED <<envVars, fs, now, mainPc, scanVars, orgVars, queueVars, wfm,
                   finalDestPath, targetErr, progClosed, collPc>>

SendV1(w) ==
    /\ wpc[w] = "send"
    /\ SendUpdateV1(w)

\* the deferred function's send after recover()
RecoverV1(w) ==
    /\ wpc[w] = "recover"
    /\ SendUpdateV1(w)

\* wg.Wait(), then close(progressChan)
OrgCloseV1 ==
    /\ orgPc = "wait"
    /\ AllWorkersDone
    /\ progClosed' = TRUE
    /\ orgPc' = "summary"
    /\ UNCHANGED <<envVars, fs, now, mainPc, scanVars, totalToProcess, next, ret,
                   queueVars, workerVars, progressChan, collVars>>

\* the summary and the return: movedCount and errorCount are read as the
\* collector goroutine has left them at this moment
OrgReturnV1 ==
    /\ orgPc = "summary"
    /\ ret' = RetV1(totalToProcess + totalSkipped, totalProcessed, totalSkipped,
                    totalErrors, NoError)
    /\ orgPc' = "returned"
    /\ mainPc' = "done"
    /\ UNCHANGED <<envVars, fs, now, scanVars, totalToProcess, next, queueVars,
                   workerVars, chanVars, collVars>>

NextV1 ==
    \/ StartV1
    \/ ScanStepV1
    \/ ScanDoneV1
    \/ Enqueue
    \/ CloseQueueV1
    \/ OrgCloseV1
    \/ OrgReturnV1
    \/ \E w \in WorkerIds : Dequeue(w)
    \/ \E w \in WorkerIds : WorkerExit(w)
    \/ \E w \in WorkerIds : Panic(w)
    \/ \E w \in WorkerIds : StatDir(w)
    \/ \E w \in WorkerIds : MkdirStep(w)
    \/ \E w \in WorkerIds : StatTarget(w)
    \/ \E w \in WorkerIds : MoveStep(w)
    \/ \E w \in WorkerIds : SendV1(w)
    \/ \E w \in WorkerIds : RecoverV1(w)
    \/ Receive
    \/ CollectorExit

SpecV1 == InitV1 /\ [][NextV1]_vars

(***************************************************************************)
(* moveFile as one sequential call, and a one-worker run of a whole plan   *)
(* with the clock standing still: the reference for runs with more workers.*)
(***************************************************************************)
MoveFileSeq(f, fm, t) ==
    LET destDir == Dir(fm.DestPath)
        made == IF AfterStatDir(fm, Stat(f, destDir)) = "mkdir"
                THEN EnsureDir(f, destDir)
                ELSE [err |-> "", fs |-> f]
        err == Stat(made.fs, fm.DestPath)
    IN  IF fm.SourcePath \in faulty THEN [fs |-> f, update |-> Errored1]
        ELSE IF made.err # "" THEN [fs |-> f, update |-> Errored1]
        ELSE IF err # "" /\ ~IsNotExist(err) THEN [fs |-> made.fs, update |-> Errored1]
        ELSE MoveResult(made.fs, fm, ResolveCollision(fm, err, t))

RECURSIVE SeqCounts(_, _)
SeqCounts(f, plan) ==
    IF plan = <<>> THEN NoUpdate
    ELSE LET r == MoveFileSeq(f, Head(plan), 0)
             rest == SeqCounts(r.fs, Tail(plan))
         IN  [Moved |-> r.update.Moved + rest.Moved,
              Errored |-> r.update.Errored + rest.Errored]

(***************************************************************************)
(* Properties.                                                             *)
(***************************************************************************)
\* updates sent so far on the progress channel: received or still buffered
SentCount == totalProcessed + totalErrors + Len(progressChan)

DestFileCount(f) == Cardinality(FilesUnder(f, DestDir))

\* C1: once the collector has finished, the aggregated totals add up to the
\* number of planned moves OrganizeFiles dispatched and returned
C1_TotalsEqualPlanned ==
    mainPc = "done" =>
        /\ totalProcessed + totalErrors = ret.totalToProcess
        /\ ret.totalToProcess = Len(filesToMove)

C1_Witness ==
    /\ mainPc = "done"
    /\ totalProcessed >= 1
    /\ totalErrors >= 1

\* C2: every moveFile call sends exactly one update, and every update is
\* {Moved:1, Errored:0} or {Moved:0, Errored:1}
C2_ExactlyOneUpdate ==
    /\ \A w \in WorkerIds :
          /\ emitted[w] <= 1
          /\ (wpc[w] \in {"idle", "exited"} /\ wfm[w] # NoMove) => emitted[w] = 1
          /\ wpc[w] \in {"send", "recover"} => pending[w] \in {Moved1, Errored1}
    /\ \A i \in 1..Len(progressChan) : progressChan[i] \in {Moved1, Errored1}

C2_Witness ==
    \E w \in WorkerIds :
        /\ wpc[w] = "idle"
        /\ emitted[w] = 1
        /\ wfm[w].SourcePath \in faulty
        /\ \E v \in WorkerIds : wpc[v] = "exited" /\ emitted[v] = 1

\* C3: after a real run the destination holds one more file for every move
\* reported as moved, so no move replaced an existing file
C3_NoOverwrite ==
    (mainPc = "done" /\ ~cfg.DryRun) =>
        DestFileCount(fs) = DestFileCount(fs0) + totalProcessed

IsDigit(c) == Ord(c) >= Ord("0") /\ Ord(c) <= Ord("9")

\* YYYYMMDD_HHMMSS
IsTimestamp(s) ==
    /\ Len(s) = 15
    /\ s[9] = "_"
    /\ \A i \in (1..15) \ {9} : IsDigit(s[i])

\* final is <base>_<YYYYMMDD_HHMMSS><ext> in the directory of target
IsSuffixedName(final, target) ==
    LET ext == Ext(target)
        stem == SubSeq(Base(target), 1, Len(Base(target)) - Len(ext))
        name == Base(final)
    IN  /\ Dir(final) = Dir(target)
        /\ Len(name) = Len(stem) + 16 + Len(ext)
        /\ SubSeq(name, 1, Len(stem)) = stem
        /\ name[Len(stem) + 1] = "_"
        /\ IsTimestamp(SubSeq(name, Len(stem) + 2, Len(stem) + 16))
        /\ SubSeq(name, Len(stem) + 17, Len(name)) = ext

\* C4: when the collision check found the target, the move goes to the
\* timestamp-suffixed name in the same directory and leaves the entry at
\* the target path as it was
C4_CollisionKeepsOriginal ==
    [][\A w \in WorkerIds :
          (wpc[w] = "move" /\ wpc'[w] = "send" /\ targetErr[w] = "" /\ ~wfm[w].DryRun) =>
              /\ IsSuffixedName(finalDestPath[w], wfm[w].DestPath)
              /\ wfm[w].DestPath \in DOMAIN fs
              /\ wfm[w].DestPath \in DOMAIN fs'
              /\ fs'[wfm[w].DestPath] = fs[wfm[w].DestPath]
              /\ pending'[w] = Moved1 =>
                    /\ finalDestPath[w] \in DOMAIN fs'
                    /\ fs'[finalDestPath[w]] = fs[wfm[w].SourcePath]
                    /\ wfm[w].SourcePath \notin DOMAIN fs']_vars

C4_Witness ==
    \E w \in WorkerIds :
        /\ wpc[w] = "send"
        /\ targetErr[w] = ""
        /\ ~wfm[w].DryRun
        /\ pending[w] = Moved1
        /\ wfm[w].DestPath \in DOMAIN fs
        /\ finalDestPath[w] \in DOMAIN fs
        /\ fs[finalDestPath[w]].data # fs[wfm[w].DestPath].data

\* C5: OrganizeFiles returns only after every worker has exited and every
\* planned move's update has been sent
C5_ReturnAfterWorkers ==
    orgPc = "returned" =>
        /\ \A w \in WorkerIds : wpc[w] \in {"unstarted", "exited"}
        /\ SentCount = Len(filesToMove)

C5_Witness ==
    /\ orgPc = "returned"
    /\ mainPc = "organize"
    /\ Workers = 2
    /\ Len(filesToMove) = 2
    /\ \A w \in WorkerIds : wpc[w] = "exited" /\ emitted[w] = 1

\* C6: a dry run leaves the filesystem as it was
C6_DryRunKeepsFilesystem == cfg.DryRun => fs = fs0

C6_Witness ==
    /\ cfg.DryRun
    /\ mainPc = "done"
    /\ totalProcessed >= 1
    /\ Stat(fs, DestDir) = "ENOENT"

\* C7: a second dry run over the unchanged tree plans the same moves in the
\* same order and ends with the same summary counts as the first
C7_DryRunTwiceSame ==
    (run = 2 /\ mainPc = "done" /\ cfg.DryRun) => Summary = prev

C7_Witness ==
    /\ run = 2
    /\ mainPc = "done"
    /\ cfg.DryRun
    /\ Len(prev.plan) = 2
    /\ prev.moved = 1
    /\ prev.errored = 1
    /\ prev.skipped >= 1

C9_RootFailureIsReturned ==
    (orgPc = "returned" /\ ReadDirErr(fs0, SourceDir) # "") =>
        /\ filesToMove = <<>>
        /\ \A w \in WorkerIds : wpc[w] = "unstarted"
        /\ ret.scanErr # NoError

\* C10: a recorded per-entry traversal error is the scan error OrganizeFiles
\* returns
C10_EntryErrorIsReturned ==
    (orgPc = "returned" /\ scanErr # NoError /\ ReadDirErr(fs0, SourceDir) = "") =>
        ret.scanErr = scanErr

\* the callback invocations so far, by class
ErrCalls == {i \in 1..Len(calls) : calls[i].err # ""}
DirCalls == {i \in 1..Len(calls) : calls[i].err = "" /\ calls[i].isDir}
FileCalls == {i \in 1..Len(calls) : calls[i].err = "" /\ ~calls[i].isDir}

PlannedSources == {filesToMove[i].SourcePath : i \in 1..Len(filesToMove)}

\* path is the destination root or lies inside the directory destination root
UnderDest(path) ==
    /\ Len(path) >= Len(DestDir)
    /\ SubSeq(path, 1, Len(DestDir)) = DestDir

\* the path of the pool's n-th file
PoolPath(n) == (CHOOSE x \in FilePool : x[2] = n)[1]

ScanFinished == orgPc \in {"dispatch", "wait", "returned"}

\* C11: during a scan a recorded scan error is never replaced: the error of
\* the first failing entry stays while the walk goes on over later entries
C11_FirstErrorKept ==
    [][(orgPc = "scan" /\ scanErr # NoError) => scanErr' = scanErr]_vars

\* C12: every callback invocation is counted once in totalScanned and is an
\* errored entry, a directory, a skipped file or a planned file
C12_ScanAccounting ==
    /\ totalScanned = Len(calls)
    /\ Len(filesToMove) + totalSkipped + Cardinality(DirCalls) + Cardinality(ErrCalls)
         = totalScanned
    /\ orgPc = "returned" => ret.totalScanned = totalScanned

C12_Witness ==
    /\ orgPc = "returned"
    /\ Len(filesToMove) >= 1
    /\ totalSkipped >= 1
    /\ Cardinality(DirCalls) >= 2
    /\ Cardinality(ErrCalls) >= 1

\* C13: no planned move has its source under the destination root, and
\* totalSkipped is the number of visited files under the destination root
C13_SkippedAreUnderDest ==
    /\ \A p \in PlannedSources : ~UnderDest(p)
    /\ totalSkipped = Cardinality({i \in FileCalls : UnderDest(calls[i].path)})

\* C14: every visited file that is not under the destination root has exactly
\* one planned move
C14_OutsideDestIsPlanned ==
    \A i \in FileCalls :
        ~UnderDest(calls[i].path) =>
            Cardinality({j \in 1..Len(filesToMove) :
                            filesToMove[j].SourcePath = calls[i].path}) = 1

\* C15: a non-recursive scan visits each subdirectory of the source root once,
\* visits nothing below it and plans only files directly in the source root;
\* a recursive scan plans the files of every depth; for <root>/a.txt and
\* <root>/u/a.txt that is one planned move against two
C15_RecursiveFlag ==
    ScanFinished =>
        /\ ~cfg.Recursive =>
              /\ \A i \in 1..Len(calls) :
                    /\ Len(calls[i].path) <= Len(SourceDir) + 1
                    /\ calls[i].path # SourceDir =>
                          \A j \in 1..Len(calls) : calls[j].path = calls[i].path => j = i
              /\ \A p \in PlannedSources : Dir(p) = SourceDir
        /\ \A p \in DOMAIN fs0 :
              (/\ fs0[p].kind = "file"
               /\ Stat(fs0, p) = ""
               /\ Len(p) > Len(SourceDir)
               /\ SubSeq(p, 1, Len(SourceDir)) = SourceDir
               /\ cfg.Recursive \/ Dir(p) = SourceDir
               /\ ~AlreadyInDest(p)) => p \in PlannedSources
        /\ (/\ FilesUnder(fs0, SourceDir) = {PoolPath(1), PoolPath(2)}
            /\ Stat(fs0, PoolPath(2)) = "") =>
              Len(filesToMove) = IF cfg.Recursive THEN 2 ELSE 1

C15_Witness ==
    /\ ScanFinished
    /\ ~cfg.Recursive
    /\ FilesUnder(fs0, SourceDir) = {PoolPath(1), PoolPath(2)}
    /\ Len(filesToMove) = 1
    /\ \E i \in DirCalls : calls[i].path = Dir(PoolPath(2))

\* the upper and lower case forms of the letters of NameChars
CasePairs == {{"T", "t"}, {"X", "x"}}

SameIgnoringCase(a, b) ==
    /\ Len(a) = Len(b)
    /\ \A i \in 1..Len(a) : a[i] = b[i] \/ {a[i], b[i]} \in CasePairs

\* the suffix of a name from its last dot on, empty without a dot
FinalDotSuffix(name) ==
    IF \A i \in 1..Len(name) : name[i] # "." THEN <<>>
    ELSE CHOOSE e \in {SubSeq(name, i, Len(name)) : i \in 1..Len(name)} :
            /\ e[1] = "."
            /\ \A j \in 2..Len(e) : e[j] # "."

\* C16: whatever the file's name, it is planned to <destRoot>/<category>/<name>
\* where the category is the mapping's value for the key equal to the name's
\* extension up to letter case, and "Others" when the mapping has no such key
C16_CategoryOfEveryName ==
    /\ \A i \in 1..Len(filesToMove) :
          LET fm == filesToMove[i]
              name == Base(fm.SourcePath)
              keys == {k \in DOMAIN DefaultCategoryMappings :
                          SameIgnoringCase(k, FinalDotSuffix(name))}
          IN  /\ Len(fm.DestPath) = Len(DestDir) + 2
              /\ Dir(Dir(fm.DestPath)) = DestDir
              /\ Base(fm.DestPath) = name
              /\ \A k \in keys : Base(Dir(fm.DestPath)) = DefaultCategoryMappings[k]
              /\ keys = {} => Base(Dir(fm.DestPath)) = Others
    /\ (ScanFinished \/ (orgPc = "returned" /\ ReadDirErr(fs0, SourceDir) = "")) =>
          \A p \in FilesUnder(fs0, SourceDir) :
              (Dir(p) = SourceDir /\ ~AlreadyInDest(p)) => p \in PlannedSources

C16_Witness ==
    /\ ScanFinished
    /\ \E i \in 1..Len(filesToMove) :
          /\ Base(Dir(filesToMove[i].DestPath)) = Documents
          /\ Ext(filesToMove[i].SourcePath) = <<".", "T", "x", "T">>
          /\ Len(Base(filesToMove[i].SourcePath)) = 4

\* a run in which nothing can fail: every directory can be read, searched and
\* written, and no moveFile call hits an internal fault
NothingFails ==
    /\ faulty = {}
    /\ ReadDirErr(fs0, SourceDir) = ""
    /\ \A p \in DOMAIN fs0 : fs0[p].kind = "dir" => fs0[p].mode = "rw"

DistinctDestinations ==
    \A i, j \in 1..Len(filesToMove) :
        filesToMove[i].DestPath = filesToMove[j].DestPath => i = j

\* C17: after a real run in which nothing fails and no two planned moves
\* share a destination, every planned source is gone, every planned
\* destination exists (with the source's content when it was free before),
\* and the totals are all moved, none errored
C17_RealRunMovesAll ==
    (mainPc = "done" /\ ~cfg.DryRun /\ NothingFails /\ DistinctDestinations) =>
        /\ \A i \in 1..Len(filesToMove) :
              LET fm == filesToMove[i]
              IN  /\ fm.SourcePath \notin DOMAIN fs
                  /\ fm.DestPath \in DOMAIN fs
                  /\ fs[fm.DestPath].kind = "file"
                  /\ fm.DestPath \notin DOMAIN fs0 =>
                        fs[fm.DestPath] = fs0[fm.SourcePath]
        /\ totalProcessed = Len(filesToMove)
        /\ totalErrors = 0

C17_Witness ==
    /\ mainPc = "done"
    /\ ~cfg.DryRun
    /\ NothingFails
    /\ DistinctDestinations
    /\ Workers = 2
    /\ Len(filesToMove) = 2
    /\ totalProcessed = 2
    /\ Stat(fs0, DestDir) = "ENOENT"

\* the planned moves whose moveFile call reported the given update
ItemsWith(update) ==
    {src \in DOMAIN moveLog : moveLog[src].updates = <<update>>}

\* C18: a worker leaves its loop only on the closed, drained queue, whatever
\* the outcomes of its items were; when OrganizeFiles returns every planned
\* move has exactly one outcome, and the errored ones are the errored total
C18_FailureDoesNotAbort ==
    /\ \A w \in WorkerIds :
          /\ wpc[w] # "crashed"
          /\ wpc[w] = "exited" => (queueClosed /\ workQueue = <<>>)
    /\ (orgPc = "returned" /\ filesToMove # <<>>) =>
          /\ DOMAIN moveLog = PlannedSources
          /\ \A src \in PlannedSources :
                Len(moveLog[src].updates) = 1
    /\ mainPc = "done" =>
          /\ totalErrors = Cardinality(ItemsWith(Errored1))
          /\ totalProcessed = Cardinality(ItemsWith(Moved1))

\* one worker handled a failing item first and moved the next one
C18_Witness ==
    /\ mainPc = "done"
    /\ Workers = 1
    /\ faulty = {}
    /\ Len(filesToMove) = 2
    /\ filesToMove[1].SourcePath \in ItemsWith(Errored1)
    /\ filesToMove[2].SourcePath \in ItemsWith(Moved1)

\* C20: every planned move put on the work queue is either still queued or
\* was passed to moveFile once, never both and never twice; when
\* OrganizeFiles returns every planned move was passed to moveFile
C20_DequeuedExactlyOnce ==
    LET queued == {workQueue[i].SourcePath : i \in 1..Len(workQueue)}
        sent == {filesToMove[i].SourcePath : i \in 1..(next - 1)}
    IN  /\ \A src \in DOMAIN moveLog : moveLog[src].calls = 1
        /\ Cardinality(queued) = Len(workQueue)
        /\ queued \cap DOMAIN moveLog = {}
        /\ queued \cup DOMAIN moveLog = sent
        /\ \A w \in WorkerIds :
              wpc[w] \notin {"unstarted", "idle", "exited"} =>
                  /\ wfm[w].SourcePath \in DOMAIN moveLog
                  /\ \A v \in WorkerIds \ {w} :
                        wpc[v] \notin {"unstarted", "idle", "exited"} => wfm[v] # wfm[w]
        /\ (queueClosed /\ \A w \in WorkerIds : wpc[w] = "exited") =>
              DOMAIN moveLog = PlannedSources

C20_Witness ==
    /\ orgPc = "returned"
    /\ Workers = 2
    /\ Len(filesToMove) = 2
    /\ wfm[1] # NoMove
    /\ wfm[2] # NoMove
    /\ wfm[1] # wfm[2]
    /\ \A src \in PlannedSources : src \in DOMAIN moveLog /\ moveLog[src].calls = 1

C21_ScanBeforeDispatch ==
    /\ orgPc \in {"idle", "scan"} =>
          /\ \A w \in DOMAIN wpc : wpc[w] = "unstarted"
          /\ workQueue = <<>>
          /\ moveLog = <<>>
          /\ fs = fs0
    /\ ScanFinished =>
          /\ walk = <<>>
          /\ totalScanned = Len(calls)
          /\ (\E w \in DOMAIN wpc : wpc[w] # "unstarted") =>
                totalToProcess = Len(filesToMove)

C21_Witness ==
    /\ orgPc = "dispatch"
    /\ Len(calls) >= 4
    /\ Len(filesToMove) = 2
    /\ next = 1
    /\ \A w \in DOMAIN wpc : wpc[w] = "idle"

\* max(1, Workers)
ExpectedWorkers == IF cfg.Workers >= 1 THEN cfg.Workers ELSE 1

\* the moveFile calls that have begun and not sent their update yet
CallsInProgress == {src \in DOMAIN moveLog : moveLog[src].updates = <<>>}

\* C22: with at least one planned move exactly max(1, Workers) workers are
\* started, and never more moveFile calls than that are in progress
C22_WorkerCount ==
    /\ (ScanFinished /\ filesToMove # <<>>) =>
          Cardinality({w \in DOMAIN wpc : wpc[w] # "unstarted"}) = ExpectedWorkers
    /\ ~(ScanFinished /\ filesToMove # <<>>) =>
          \A w \in DOMAIN wpc : wpc[w] = "unstarted"
    /\ Cardinality(CallsInProgress) <= ExpectedWorkers

C22_Witness ==
    /\ cfg.Workers = 0
    /\ mainPc = "done"
    /\ Len(filesToMove) = 2
    /\ totalProcessed + totalErrors = 2
    /\ Cardinality(DOMAIN wpc) = 1

\* C23: a moveFile call whose collision check failed with an error other
\* than not-found never reaches the rename: it reports one errored update,
\* its source stays as it was and its target path is as the run found it
C23_StatErrorSkipsRename ==
    \A w \in DOMAIN wpc :
        (targetErr[w] \notin {"", "ENOENT"}) =>
            LET fm == wfm[w]
            IN  /\ wpc[w] \in {"send", "idle", "exited"}
                /\ wpc[w] = "send" => pending[w] = Errored1
                /\ wpc[w] # "send" => moveLog[fm.SourcePath].updates = <<Errored1>>
                /\ fm.SourcePath \in DOMAIN fs
                /\ fs[fm.SourcePath] = fs0[fm.SourcePath]
                /\ fm.DestPath \in DOMAIN fs => (/\ fm.DestPath \in DOMAIN fs0
                                                 /\ fs[fm.DestPath] = fs0[fm.DestPath])

C23_Witness ==
    \E w \in DOMAIN wpc :
        /\ targetErr[w] = "EACCES"
        /\ wpc[w] = "idle"
        /\ ~wfm[w].DryRun
        /\ faulty = {}
        /\ moveLog[wfm[w].SourcePath].updates = <<Errored1>>
        /\ totalProcessed >= 1

\* C24: a moveFile call that hits an internal fault sends exactly one errored
\* update from its deferred function and leaves its source alone; no worker
\* goroutine dies, and at the end every planned move has one outcome
C24_PanicIsTrapped ==
    /\ \A w \in DOMAIN wpc :
          /\ wpc[w] # "crashed"
          /\ wpc[w] = "recover" => (pending[w] = Errored1 /\ emitted[w] = 0)
    /\ \A src \in faulty \cap DOMAIN moveLog :
          /\ moveLog[src].updates \in {<<>>, <<Errored1>>}
          /\ moveLog[src].updates = <<>> =>
                \E w \in DOMAIN wpc :
                    wfm[w].SourcePath = src /\ wpc[w] \in {"statDir", "recover"}
          /\ src \in DOMAIN fs
          /\ fs[src] = fs0[src]
    /\ mainPc = "done" =>
          \A src \in PlannedSources :
              /\ Len(moveLog[src].updates) = 1
              /\ src \in faulty => moveLog[src].updates = <<Errored1>>

C24_Witness ==
    /\ mainPc = "done"
    /\ Workers = 1
    /\ Len(filesToMove) = 2
    /\ filesToMove[1].SourcePath \in faulty
    /\ moveLog[filesToMove[1].SourcePath].updates = <<Errored1>>
    /\ moveLog[filesToMove[2].SourcePath].updates = <<Moved1>>

\* C25: totalProcessed and totalErrors change only in a step of the
\* collector, by the update it takes from the channel and with no worker or
\* main moving in the same step; they do not change once the collector has
\* finished, and main reaches its summary only after that
C25_CountersHaveOneWriter ==
    [][/\ (totalProcessed' # totalProcessed \/ totalErrors' # totalErrors) =>
             /\ collPc = "recv"
             /\ progressChan # <<>>
             /\ totalProcessed' = totalProcessed + Head(progressChan).Moved
             /\ totalErrors' = totalErrors + Head(progressChan).Errored
             /\ progressChan' = Tail(progressChan)
             /\ wpc' = wpc
             /\ mainPc' = mainPc
       /\ collPc = "done" =>
             (totalProcessed' = totalProcessed /\ totalErrors' = totalErrors)
       /\ (mainPc' = "done" /\ mainPc # "done") =>
             /\ collPc = "done"
             /\ totalProcessed = Cardinality(ItemsWith(Moved1))
             /\ totalErrors = Cardinality(ItemsWith(Errored1))]_vars

C25_Witness ==
    /\ mainPc = "done"
    /\ collPc = "done"
    /\ Workers = 2
    /\ totalProcessed = 1
    /\ totalErrors = 1

\* C26: the progress channel is closed only by main after OrganizeFiles has
\* returned and every worker is gone, so no send meets a closed channel; the
\* collector ends only on the closed channel with every outcome received
C26_CloseAfterReturn ==
    /\ progClosed <=> mainPc \in {"wait", "done"}
    /\ progClosed =>
          /\ orgPc = "returned"
          /\ \A w \in DOMAIN wpc : wpc[w] \in {"unstarted", "exited"}
    /\ \A w \in DOMAIN wpc : wpc[w] # "crashed"
    /\ collPc = "done" =>
          /\ progClosed
          /\ progressChan = <<>>
          /\ totalProcessed + totalErrors = Len(filesToMove)

C26_Witness ==
    /\ progClosed
    /\ collPc = "recv"
    /\ Len(progressChan) = 2
    /\ \E w \in DOMAIN wpc : wfm[w].SourcePath \in faulty

\* C27: after a real run with one worker the destination holds one more
\* file for every move reported as moved, whatever the clock read
C27_OneWorkerNoOverwrite ==
    (mainPc = "done" /\ Workers = 1 /\ ~cfg.DryRun) =>
        Cardinality(FilesUnder(fs, DestDir)) =
            Cardinality(FilesUnder(fs0, DestDir)) + Cardinality(ItemsWith(Moved1))

\* the sources of the moveFile calls that reported or are about to report
\* an errored update
ErroredSources ==
    ItemsWith(Errored1)
        \cup {wfm[w].SourcePath : w \in {v \in DOMAIN wpc : pending[v] = Errored1}}

\* C28: in a real run the source of an errored move is still at its source
\* path, as the run found it, and its content is at no other path
C28_ErroredMoveLeavesSource ==
    ~cfg.DryRun =>
        \A src \in ErroredSources :
            /\ src \in DOMAIN fs
            /\ fs[src] = fs0[src]
            /\ \A p \in DOMAIN fs \ {src} :
                  fs[p].kind = "file" => fs[p].data # fs0[src].data

\* a rename that failed
C28_Witness ==
    \E w \in DOMAIN wpc :
        /\ ~cfg.DryRun
        /\ wpc[w] = "send"
        /\ pending[w] = Errored1
        /\ wfm[w].SourcePath \notin faulty
        /\ finalDestPath[w] # <<>>
        /\ Stat(fs, Dir(finalDestPath[w])) = ""

\* C29: the second of two real runs, after a first one without errored
\* moves, plans nothing, starts no moveFile call, reports nothing and leaves
\* the filesystem as the first run left it
C29_SecondRunPlansNothing ==
    (run = 2 /\ ~cfg.DryRun /\ prev.errored = 0) =>
        /\ filesToMove = <<>>
        /\ moveLog = <<>>
        /\ progressChan = <<>>
        /\ totalProcessed = 0
        /\ totalErrors = 0
        /\ fs = fs0

C29_Witness ==
    /\ run = 2
    /\ mainPc = "done"
    /\ ~cfg.DryRun
    /\ prev.errored = 0
    /\ prev.moved = 2
    /\ totalSkipped >= 2

\* C30: whatever the workers setting, main does not panic and both channel
\* capacities are non-negative
C30_NoCrashForAnyWorkers ==
    mainPc # "start" =>
        /\ mainPc # "panicked"
        /\ ProgressCap >= 0
        /\ QueueCap >= 0

\* the earlier OrganizeFiles is stuck: the dispatch loop waits for room in the
\* work queue, every worker waits in a send on the progress channel, and the
\* goroutine that would receive has not been started
StuckV1 ==
    /\ orgPc = "dispatch"
    /\ next <= Len(filesToMove)
    /\ Len(workQueue) >= QueueCap
    /\ \A w \in WorkerIds : wpc[w] \in {"send", "recover"}
    /\ Len(progressChan) >= chanCap
    /\ collPc = "idle"

\* C31: the earlier OrganizeFiles terminates for every number of planned
\* moves, worker count and capacity of the caller's progress channel: its
\* dispatch loop is never blocked for good with all workers blocked on
\* sending an outcome
C31_DispatchNeverStuck == ~StuckV1

====
